---- MODULE Spec2Model ----
(***************************************************************************)
(* Model of optic/metrics.py: hardDecision, fastBERcalc, calcLLR,          *)
(* monteCarloGMI, monteCarloMI.                                            *)
(*                                                                         *)
(* Numbers.  The program works on complex floating point arrays.  Here a   *)
(* finite number is held exactly, as w * sqrt(f) with w a complex rational *)
(* and f a square-free positive integer (the square root comes from the    *)
(* power normalisation), and every non-finite float (inf, nan and their    *)
(* complex mixtures) is the single value NaN.  Rounding is not modelled.   *)
(* The value of a transcendental expression (log, exp, log10) is held as   *)
(* the unevaluated expression over its exact arguments together with its   *)
(* IEEE class (finite, +inf, -inf, nan).                                   *)
(***************************************************************************)
EXTENDS Integers, Sequences, FiniteSets, TLC

VARIABLES
    M,          \* modulation order (argument of every estimator)
    constType,  \* "qam" or "psk"
    rx,         \* the caller's received-symbol array object
    tx,         \* the caller's transmitted-symbol array object
    rx0,        \* history: rx as it was before the first call
    tx0,        \* history: tx as it was before the first call
    calls,      \* history: the results of the calls made so far, in order
    rxSymb,     \* hardDecision: its input sequence
    decBits,    \* hardDecision: its output array
    i,          \* hardDecision: loop index (symbols decided so far)
    pc          \* hardDecision: "idle", "loop" or "done"

vars == <<M, constType, rx, tx, rx0, tx0, calls, rxSymb, decBits, i, pc>>

-----------------------------------------------------------------------------
(* Bounds of the model. *)

\* estimators: most samples per mode
MaxLen == 2
\* estimators: most modes of an array
MaxModes == 2
\* estimators: most calls made on the same pair of arrays
MaxCalls == 2
\* hardDecision: longest input sequence
HDMaxLen == 2
\* hardDecision: largest |Re|, |Im| of an input symbol
HDMaxCoord == 1
\* hardDecision: input symbols are w * sqrt(r), r in 1..HDMaxRho
HDMaxRho == 2

-----------------------------------------------------------------------------
(* Exact rationals <<n, d>>, d > 0, in lowest terms. *)

Abs(n) == IF n < 0 THEN -n ELSE n

RECURSIVE GCD(_, _)
GCD(a, b) == IF b = 0 THEN a ELSE GCD(b, a % b)

Rat(n, d) ==
    LET g == GCD(Abs(n), Abs(d))
        s == IF d < 0 THEN -1 ELSE 1
    IN  <<(s * n) \div g, (s * d) \div g>>

RZero == <<0, 1>>
ROne == <<1, 1>>
RInt(n) == <<n, 1>>
RNeg(x) == <<-x[1], x[2]>>
RSign(x) == IF x[1] < 0 THEN -1 ELSE IF x[1] = 0 THEN 0 ELSE 1

\* Sums over the least common denominator and products with the common
\* factors cancelled first, to keep the intermediate integers small.
RAdd(x, y) ==
    LET g == GCD(x[2], y[2])
    IN  Rat(x[1] * (y[2] \div g) + y[1] * (x[2] \div g), (x[2] \div g) * y[2])
RSub(x, y) == RAdd(x, RNeg(y))
RMul(x, y) ==
    LET g == GCD(Abs(x[1]), y[2])
        h == GCD(Abs(y[1]), x[2])
    IN  Rat((x[1] \div g) * (y[1] \div h), (x[2] \div h) * (y[2] \div g))
RDiv(x, y) == RMul(x, IF y[1] < 0 THEN <<-y[2], -y[1]>> ELSE <<y[2], y[1]>>)

\* The order (-1, 0, 1) of a/b against c/d for a, c >= 0 and b, d > 0, by
\* comparing integer parts and then the inverted remainders: no product is
\* formed.
RECURSIVE CmpFrac(_, _, _, _)
CmpFrac(a, b, c, d) ==
    IF a \div b # c \div d THEN (IF a \div b < c \div d THEN -1 ELSE 1)
    ELSE IF a % b = 0 \/ c % d = 0
         THEN (IF a % b = 0 /\ c % d = 0 THEN 0 ELSE IF a % b = 0 THEN -1 ELSE 1)
    ELSE CmpFrac(d, c % d, b, a % b)

RLess(x, y) ==
    IF x[1] < 0 /\ y[1] >= 0 THEN TRUE
    ELSE IF x[1] >= 0 /\ y[1] < 0 THEN FALSE
    ELSE IF x[1] >= 0 THEN CmpFrac(x[1], x[2], y[1], y[2]) < 0
    ELSE CmpFrac(-y[1], y[2], -x[1], x[2]) < 0

\* The largest s with s*s dividing n (n >= 1), by trial division from k.
RECURSIVE SqPartFrom(_, _, _)
SqPartFrom(n, k, s) ==
    IF k * k > n THEN s
    ELSE IF n % (k * k) = 0 THEN SqPartFrom(n \div (k * k), k, s * k)
    ELSE SqPartFrom(n, k + 1, s)

SqPart(n) == SqPartFrom(n, 2, 1)

-----------------------------------------------------------------------------
(* Array elements: NaN, or the finite number (a + j*b)/d * sqrt(f), with
   integers a, b, d > 0 without a common factor and f square-free (zero is
   a = b = 0, d = f = 1): one representation per value. *)

NaN == [nan |-> TRUE, a |-> 0, b |-> 0, d |-> 1, f |-> 1]
Zero == [nan |-> FALSE, a |-> 0, b |-> 0, d |-> 1, f |-> 1]

\* (a + j*b)/d * sqrt(f), f square-free, brought to lowest terms.
Norm(a, b, d, f) ==
    IF a = 0 /\ b = 0 THEN Zero
    ELSE LET g == GCD(GCD(Abs(a), Abs(b)), d)
         IN  [nan |-> FALSE, a |-> a \div g, b |-> b \div g, d |-> d \div g, f |-> f]

\* (a + j*b)/d * sqrt(rn/rd) for integers rn >= 0, rd > 0.
MkNum(a, b, d, rn, rd) ==
    IF rn = 0 THEN Zero
    ELSE LET s == SqPart(rn * rd)
         IN  Norm(a * s, b * s, d * rd, (rn * rd) \div (s * s))

\* The Gaussian integer a + j*b.
GInt(a, b) == Norm(a, b, 1, 1)

IsZero(x) == ~x.nan /\ x.a = 0 /\ x.b = 0

\* |x|^2 of a finite number: a rational.
Abs2(x) == Rat(x.f * (x.a * x.a + x.b * x.b), x.d * x.d)

\* A value no operator of the model can produce: evaluating it stops TLC.
\* It guards the sums of two numbers with different radicals, which the
\* program's data flow never forms.
Unrepresentable == CHOOSE x \in {} : TRUE

NAdd(x, y) ==
    IF x.nan \/ y.nan THEN NaN
    ELSE IF IsZero(x) THEN y
    ELSE IF IsZero(y) THEN x
    ELSE IF x.f = y.f
         THEN Norm(x.a * y.d + y.a * x.d, x.b * y.d + y.b * x.d, x.d * y.d, x.f)
    ELSE Unrepresentable

NMul(x, y) ==
    IF x.nan \/ y.nan THEN NaN
    ELSE MkNum(x.a * y.a - x.b * y.b, x.a * y.b + x.b * y.a, x.d * y.d,
               x.f * y.f, 1)

\* x / y = x * conj(y) / |y|^2; a division by zero gives a non-finite
\* complex value.
NDiv(x, y) ==
    IF x.nan \/ y.nan \/ IsZero(y) THEN NaN
    ELSE MkNum((x.a * y.a + x.b * y.b) * y.d, (x.b * y.a - x.a * y.b) * y.d,
               x.d * (y.a * y.a + y.b * y.b), x.f, y.f)

\* x scaled by the real number sqrt(rho), rho a rational > 0.
NScaleSqrt(x, rho) ==
    IF x.nan THEN NaN ELSE MkNum(x.a, x.b, x.d, x.f * rho[1], rho[2])

\* x / n for an integer n >= 1.
NDivInt(x, n) ==
    IF x.nan THEN NaN ELSE Norm(x.a, x.b, x.d * n, x.f)

-----------------------------------------------------------------------------
(* Real values a + b*sqrt(h), h a square-free integer >= 1 (b = 0 => h = 1):
   squared distances and variances of numbers with different radicals. *)

SNaN == [nan |-> TRUE, a |-> RZero, b |-> RZero, h |-> 1]
Surd(a, b, h) ==
    IF b[1] = 0 \/ h = 1
    THEN [nan |-> FALSE, a |-> IF h = 1 THEN RAdd(a, b) ELSE a,
          b |-> RZero, h |-> 1]
    ELSE [nan |-> FALSE, a |-> a, b |-> b, h |-> h]

SRat(a) == Surd(a, RZero, 1)

SAdd(x, y) ==
    IF x.nan \/ y.nan THEN SNaN
    ELSE IF x.b[1] = 0 THEN Surd(RAdd(x.a, y.a), y.b, y.h)
    ELSE IF y.b[1] = 0 THEN Surd(RAdd(x.a, y.a), x.b, x.h)
    ELSE IF x.h = y.h THEN Surd(RAdd(x.a, y.a), RAdd(x.b, y.b), x.h)
    ELSE Unrepresentable

SScale(x, r) ==
    IF x.nan THEN SNaN ELSE Surd(RMul(x.a, r), RMul(x.b, r), x.h)

SSub(x, y) == SAdd(x, SScale(y, RInt(-1)))

RAbs(x) == <<Abs(x[1]), x[2]>>

\* The sign (-1, 0, 1) of a + b*sqrt(h), h >= 1 square-free.  As
\* 1 <= sqrt(h) <= h, the sign is that of a when |a| > |b|*h and that of b
\* when |a| < |b|; only in between are the squares compared.
Sign1(a, b, h) ==
    LET sa == RSign(a)
        sb == RSign(b)
    IN  IF sb = 0 THEN sa
        ELSE IF sa = 0 THEN sb
        ELSE IF sa = sb THEN sa
        ELSE IF RLess(RMul(RAbs(b), RInt(h)), RAbs(a)) THEN sa
        ELSE IF RLess(RAbs(a), RAbs(b)) THEN sb
        ELSE LET r == RAbs(RDiv(a, b))    \* (a/b)^2 against h
                 c == CmpFrac(r[1], r[2], h * r[2], r[1])
             IN  IF c > 0 THEN sa ELSE IF c < 0 THEN sb ELSE 0

SSign(x) == Sign1(x.a, x.b, x.h)

\* The sign of a + b*sqrt(p) + c*sqrt(q), p and q square-free.
Sign2(a, b, p, c, q) ==
    IF c[1] = 0 THEN Sign1(a, b, p)
    ELSE IF b[1] = 0 THEN Sign1(a, c, q)
    ELSE IF p = q THEN Sign1(a, RAdd(b, c), p)
    ELSE IF RLess(RAdd(RMul(RAbs(b), RInt(p)), RMul(RAbs(c), RInt(q))), RAbs(a))
         THEN RSign(a)
    ELSE \* X = a + b*sqrt(p), Y = -c*sqrt(q): the sign of X - Y from the
         \* signs sx of X, sy of Y and d of
         \* X^2 - Y^2 = a^2 + b^2 p - c^2 q + 2ab*sqrt(p).
         LET Of(sx, sy, d) ==
                 IF sx > 0 /\ sy <= 0 THEN 1
                 ELSE IF sx < 0 /\ sy >= 0 THEN -1
                 ELSE IF sx = 0 THEN -sy
                 ELSE IF sx > 0 THEN d
                 ELSE -d
         IN  Of(Sign1(a, b, p), -RSign(c),
                Sign1(RSub(RAdd(RMul(a, a), RMul(RMul(b, b), RInt(p))),
                           RMul(RMul(c, c), RInt(q))),
                      RMul(RInt(2), RMul(a, b)), p))

\* Integers below and above a finite value (as sqrt(h) <= h).
IntLower(x) == (x.a[1] \div x.a[2]) - (-((-Abs(x.b[1])) \div x.b[2])) * x.h
IntUpper(x) == (-((-x.a[1]) \div x.a[2])) + (-((-Abs(x.b[1])) \div x.b[2])) * x.h

\* x < y for two finite values.
SLess(x, y) == Sign2(RSub(x.a, y.a), x.b, x.h, RNeg(y.b), y.h) < 0

\* sqrt(m * n) = g * sqrt(h) for square-free m, n: <<g, h>>.
SqrtProd(m, n) == LET s == SqPart(m * n) IN <<s, (m * n) \div (s * s)>>

\* |x - y|^2 = |x|^2 + |y|^2 - 2 Re(x conj(y)).
AbsDiff2(x, y) ==
    IF x.nan \/ y.nan THEN SNaN
    ELSE LET gh == SqrtProd(x.f, y.f)
         IN  Surd(Rat(x.f * (x.a * x.a + x.b * x.b) * y.d * y.d
                        + y.f * (y.a * y.a + y.b * y.b) * x.d * x.d,
                      x.d * x.d * y.d * y.d),
                  Rat(-2 * gh[1] * (x.a * y.a + x.b * y.b), x.d * y.d),
                  gh[2])

-----------------------------------------------------------------------------
(* Sequence helpers. *)

RECURSIVE SumNum(_)
SumNum(s) == IF s = <<>> THEN Zero ELSE NAdd(Head(s), SumNum(Tail(s)))

RECURSIVE SumSurd(_)
SumSurd(s) == IF s = <<>> THEN SRat(RZero) ELSE SAdd(Head(s), SumSurd(Tail(s)))

RECURSIVE SumInt(_)
SumInt(s) == IF s = <<>> THEN 0 ELSE Head(s) + SumInt(Tail(s))

\* An array value computed once, element by element, when it is built (as
\* numpy computes it), rather than on every read of an element.
Strict(f) == IF f = <<>> THEN <<>> ELSE f

\* The column of n samples that cycles through a pattern of two symbols.
Column(n, pat) == [s \in 1..n |-> pat[((s - 1) % 2) + 1]]

-----------------------------------------------------------------------------
(* The constellation provider (optic.modulation), consumed by the metrics. *)

Configs == {<<2, "psk">>, <<4, "qam">>}

\* GrayMapping(M, constType): the M constellation points, ordered by the
\* integer value of their Gray label.
GrayMapping(m, ct) ==
    IF m = 2 THEN <<GInt(1, 0), GInt(-1, 0)>>
    ELSE IF ct = "psk"
         THEN <<GInt(1, 0), GInt(0, 1), GInt(0, -1), GInt(-1, 0)>>
    ELSE <<GInt(-1, 1), GInt(1, 1), GInt(-1, -1), GInt(1, -1)>>

\* int(np.log2(M))
RECURSIVE Log2Int(_)
Log2Int(m) == IF m < 2 THEN 0 ELSE 1 + Log2Int(m \div 2)

\* The b-bit label of index n, most significant bit first.
BitRow(n, b) == [p \in 1..b |-> (n \div (2 ^ (b - p))) % 2]

\* demodulateGray(constSymb, M, constType).reshape(-1, b): row j+1 is the
\* label of constellation point j.
demodulateGray(cs, m, ct) == [j \in 1..Len(cs) |-> BitRow(j - 1, Log2Int(m))]

-----------------------------------------------------------------------------
(* hardDecision *)

\* np.abs(rxSymb[i] - constSymb), compared through its square.
Dist2(r, constSymb) ==
    Strict([j \in 1..Len(constSymb) |-> AbsDiff2(r, constSymb[j])])

\* The scan of np.argmin: the first nan ends it, a strictly smaller value
\* moves the minimum. idx and m are 1-based positions.
RECURSIVE ArgMinFrom(_, _, _)
ArgMinFrom(d, idx, m) ==
    IF idx > Len(d) THEN m
    ELSE IF d[idx].nan THEN idx
    ELSE IF SLess(d[idx], d[m]) THEN ArgMinFrom(d, idx + 1, idx)
    ELSE ArgMinFrom(d, idx + 1, m)

\* Mutant: a non-strict comparison, so that the last minimum wins.
RECURSIVE ArgMinLast(_, _, _)
ArgMinLast(d, idx, m) ==
    IF idx > Len(d) THEN m
    ELSE IF d[idx].nan THEN idx
    ELSE IF ~SLess(d[m], d[idx]) THEN ArgMinLast(d, idx + 1, idx)
    ELSE ArgMinLast(d, idx + 1, m)

argminLast(d) == (IF d[1].nan THEN 1 ELSE ArgMinLast(d, 1, 1)) - 1

\* np.argmin(d): the 0-based index of the first minimum.
argmin(d) == (IF d[1].nan THEN 1 ELSE ArgMinFrom(d, 1, 1)) - 1

\* Mutant: the slice written at i : i + b instead of i*b : i*b + b.
HDBodyBadSlice(dec, k, rxs, constSymb, bitMap) ==
    LET b == Log2Int(Len(constSymb))
        indSymb == argmin(Dist2(rxs[k + 1], constSymb))
    IN  [p \in 1..Len(dec) |->
            IF k < p /\ p <= k + b THEN bitMap[indSymb + 1][p - k]
            ELSE dec[p]]

\* One iteration of the loop, for index k (0-based):
\*   indSymb = np.argmin(np.abs(rxSymb[k] - constSymb))
\*   decBits[k*b : k*b + b] = bitMap[indSymb, :]
HDBody(dec, k, rxs, constSymb, bitMap) ==
    LET b == Log2Int(Len(constSymb))
        indSymb == argmin(Dist2(rxs[k + 1], constSymb))
    IN  [p \in 1..Len(dec) |->
            IF k * b < p /\ p <= k * b + b THEN bitMap[indSymb + 1][p - k * b]
            ELSE dec[p]]

\* decBits = np.zeros(len(rxSymb) * b)
HDZeros(rxs, constSymb) == [p \in 1..(Len(rxs) * Log2Int(Len(constSymb))) |-> 0]

RECURSIVE HDLoopFrom(_, _, _, _, _)
HDLoopFrom(dec, k, rxs, constSymb, bitMap) ==
    IF k >= Len(rxs) THEN dec
    ELSE HDLoopFrom(HDBody(dec, k, rxs, constSymb, bitMap), k + 1,
                    rxs, constSymb, bitMap)

\* The whole function, as the estimators call it.
hardDecision(rxs, constSymb, bitMap) ==
    HDLoopFrom(HDZeros(rxs, constSymb), 0, rxs, constSymb, bitMap)

-----------------------------------------------------------------------------
(* Arrays.  An array object is [ndim, d]: d is the sequence of its rows, a
   1-D array of n elements being held as n rows of one element. *)

\* Lines 89-98 (200-209, 287-296): the column-oriented view the estimators
\* work on.  A 1-D array is reshaped to (n, 1); a 2-D array with more
\* columns than rows is transposed.  Both are views: writes reach the
\* caller's array.  n = samples, m = modes, t = transposed.
View(A) ==
    IF A.ndim = 1 THEN [n |-> Len(A.d), m |-> 1, t |-> FALSE]
    ELSE IF Len(A.d[1]) > Len(A.d)
         THEN [n |-> Len(A.d[1]), m |-> Len(A.d), t |-> TRUE]
    ELSE [n |-> Len(A.d), m |-> Len(A.d[1]), t |-> FALSE]

\* A[:, k] of the view (k 0-based).
GetCol(A, k) ==
    Strict([s \in 1..View(A).n |->
               IF View(A).t THEN A.d[k + 1][s] ELSE A.d[s][k + 1]])

\* A[:, k] = col, written through the view into the array object.
SetCol(A, k, col) ==
    [A EXCEPT !.d =
        [r \in 1..Len(A.d) |-> [c \in 1..Len(A.d[r]) |->
            IF View(A).t
            THEN (IF r = k + 1 THEN col[c] ELSE A.d[r][c])
            ELSE (IF c = k + 1 THEN col[r] ELSE A.d[r][c])]]]

\* Column k of a 2-D operand broadcast against another: a single column
\* stands for every column.
BCol(A, k) == IF View(A).m = 1 THEN GetCol(A, 0) ELSE GetCol(A, k)

-----------------------------------------------------------------------------
(* Column arithmetic. *)

\* signal_power(x) = mean(x * conj(x)).real
signal_power(x) ==
    IF \E s \in 1..Len(x) : x[s].nan THEN SNaN
    ELSE SScale(SumSurd([s \in 1..Len(x) |-> SRat(Abs2(x[s]))]),
                Rat(1, Len(x)))

\* signal_power(x - y)
PowerDiff(x, y) ==
    SScale(SumSurd([s \in 1..Len(x) |-> AbsDiff2(x[s], y[s])]), Rat(1, Len(x)))

\* pnorm(x) = x / sqrt(mean(|x|^2)).  A column of zero power is 0/0.
pnorm(x) ==
    LET By(P) ==
            IF P.nan \/ P.a[1] = 0 THEN [s \in 1..Len(x) |-> NaN]
            ELSE Strict([s \in 1..Len(x) |-> NScaleSqrt(x[s], RDiv(ROne, P.a))])
    IN  By(signal_power(x))

\* np.mean(x) of a column.
MeanNum(x) == NDivInt(SumNum(x), Len(x))

\* np.var(x - y): mean(|d - mean(d)|^2) = mean(|d|^2) - |mean(d)|^2, d = x - y.
VarDiff(x, y) ==
    SSub(PowerDiff(x, y), AbsDiff2(MeanNum(x), MeanNum(y)))

\* np.mean(np.abs(constSymb) ** 2)
EsOf(cs) == Rat(SumInt([j \in 1..Len(cs) |-> Abs2(cs[j])[1]]), Len(cs))

\* Mutant of Condition: the rotation taken from the products tx * rx instead
\* of the ratios tx / rx.
ConditionMulRot(rxA, txA, k) ==
    IF k >= View(rxA).m THEN [err |-> "IndexError", rx |-> rxA, tx |-> txA]
    ELSE LET Rotated(rxn, rot) == [s \in 1..Len(rxn) |-> NMul(rot, rxn[s])]
             Of(rxn, txn) ==
                 [err |-> "",
                  rx |-> SetCol(rxA, k, Rotated(rxn,
                            MeanNum([s \in 1..Len(txn) |-> NMul(txn[s], rxn[s])]))),
                  tx |-> SetCol(txA, k, txn)]
         IN  Of(pnorm(GetCol(rxA, k)), pnorm(GetCol(txA, k)))

\* Lines 111-117 (222-228): normalisation and phase correction of mode k,
\* in place.  Reading rx[:, k] beyond the modes of rx is an IndexError.
Condition(rxA, txA, k) ==
    IF k >= View(rxA).m THEN [err |-> "IndexError", rx |-> rxA, tx |-> txA]
    ELSE LET Rotated(rxn, rot) == [s \in 1..Len(rxn) |-> NMul(rot, rxn[s])]
             Of(rxn, txn) ==
                 [err |-> "",
                  rx |-> SetCol(rxA, k, Rotated(rxn,
                            MeanNum([s \in 1..Len(txn) |-> NDiv(txn[s], rxn[s])]))),
                  tx |-> SetCol(txA, k, txn)]
         IN  Of(pnorm(GetCol(rxA, k)), pnorm(GetCol(txA, k)))

-----------------------------------------------------------------------------
(* fastBERcalc *)

\* 10 * log10(p / q): the class of the float, and the ratio when finite.
SNRdB(p, q) ==
    IF p.nan \/ q.nan THEN [cls |-> "nan", p |-> SNaN, q |-> SNaN]
    ELSE IF SSign(q) = 0
         THEN [cls |-> IF SSign(p) = 0 THEN "nan" ELSE "pinf", p |-> SNaN, q |-> SNaN]
    ELSE IF SSign(p) = 0 THEN [cls |-> "ninf", p |-> SNaN, q |-> SNaN]
    ELSE [cls |-> "fin", p |-> p, q |-> q]

\* Lines 110-122: the pre-processing loop from mode k on.
RECURSIVE BERLoop1(_, _, _, _, _)
BERLoop1(k, nModes, rxA, txA, snr) ==
    IF k >= nModes THEN [err |-> "", rx |-> rxA, tx |-> txA, SNR |-> snr]
    ELSE LET After(c) ==
                 IF c.err # "" THEN [err |-> c.err, rx |-> c.rx, tx |-> c.tx, SNR |-> <<>>]
                 ELSE BERLoop1(k + 1, nModes, c.rx, c.tx,
                          Append(snr, SNRdB(signal_power(GetCol(c.tx, k)),
                                            PowerDiff(GetCol(c.rx, k), GetCol(c.tx, k)))))
         IN  After(Condition(rxA, txA, k))

\* err = np.logical_xor(brx, btx)
Xor(brx, btx) ==
    Strict([p \in 1..Len(brx) |-> IF brx[p] = btx[p] THEN 0 ELSE 1])

\* np.mean(err)
BERof(err) == Rat(SumInt(err), Len(err))

\* Mutant of SERof: a group counts only when all of its bits are wrong.
SERofAll(err, b) ==
    LET n == Len(err) \div b
    IN  Rat(Cardinality({g \in 0..(n - 1) : \A p \in 1..b : err[g * b + p] = 1}), n)

\* np.mean(np.sum(err.reshape(-1, b), axis=1) > 0)
SERof(err, b) ==
    LET n == Len(err) \div b
    IN  Rat(Cardinality({g \in 0..(n - 1) : \E p \in 1..b : err[g * b + p] = 1}), n)

\* np.sqrt(Es) * A[:, k]
ScaledCol(A, k, Es) ==
    LET col == GetCol(A, k)
    IN  Strict([s \in 1..Len(col) |-> NScaleSqrt(col[s], Es)])

\* Lines 124-126 and 128 for mode k: the XOR of the decided bits.
ErrBits(rxA, txA, k, cs, bitMap) ==
    Xor(hardDecision(ScaledCol(rxA, k, EsOf(cs)), cs, bitMap),
        hardDecision(ScaledCol(txA, k, EsOf(cs)), cs, bitMap))

\* The whole call: the result, and the caller's arrays as the call leaves them.
fastBERcalc(rxA, txA, m, ct) ==
    LET b == Log2Int(m)
        nModes == View(txA).m
        Rates(err, snr) == [BER |-> BERof(err), SER |-> SERof(err, b), SNR |-> snr]
        After(pre, cs) ==
            IF pre.err # ""
            THEN [fn |-> "fastBERcalc", err |-> pre.err, rx |-> pre.rx, tx |-> pre.tx,
                  out |-> <<>>]
            ELSE [fn |-> "fastBERcalc", err |-> "", rx |-> pre.rx, tx |-> pre.tx,
                  out |-> [k \in 1..nModes |->
                      Rates(ErrBits(pre.rx, pre.tx, k - 1, cs, demodulateGray(cs, m, ct)),
                            pre.SNR[k])]]
    IN  After(BERLoop1(0, nModes, rxA, txA, <<>>), GrayMapping(m, ct))

-----------------------------------------------------------------------------
(* calcLLR and monteCarloGMI *)

\* np.exp(-x) is 0.0 in double precision once x exceeds this (745.13...).
ExpUnderflow == 745

\* LLR clipping value.
LLRClip == 500

\* Line 162: the float class of exp(-|r - c|^2 / s2): "nan", "zero" or "pos".
\* With s2 = 0 the exponent is -0/0 = nan at distance 0, and -inf elsewhere.
ProbCls(r, c, s2) ==
    LET Of(d, T) ==
            IF d.nan \/ s2.nan THEN "nan"
            ELSE IF SSign(s2) = 0 THEN (IF SSign(d) = 0 THEN "nan" ELSE "zero")
            ELSE IF IntUpper(d) < IntLower(T) THEN "pos"
            ELSE IF SLess(T, d) THEN "zero"
            ELSE "pos"
    IN  Of(AbsDiff2(r, c), SScale(s2, RInt(ExpUnderflow)))

\* Lines 165-166: the class of np.sum(prob[bitMap[:, n] == v]), prob being
\* given by the classes of its elements.
SumCls(prob, bitMap, n, v) ==
    LET P == {prob[j] : j \in {j \in 1..Len(prob) : bitMap[j][n + 1] = v}}
    IN  IF "nan" \in P THEN "nan" ELSE IF "pos" \in P THEN "pos" ELSE "zero"

\* Line 168: np.log(p0) - np.log(p1) for symbol r and bit n.  A finite value
\* is held as the expression it is the value of.
LLRof(r, s2, prob, bitMap, n) ==
    LET p0 == SumCls(prob, bitMap, n, 0)
        p1 == SumCls(prob, bitMap, n, 1)
    IN  IF p0 = "nan" \/ p1 = "nan" THEN [cls |-> "nan", v |-> <<>>]
        ELSE IF p0 = "zero" /\ p1 = "zero" THEN [cls |-> "nan", v |-> <<>>]
        ELSE IF p0 = "zero" THEN [cls |-> "ninf", v |-> <<>>]
        ELSE IF p1 = "zero" THEN [cls |-> "pinf", v |-> <<>>]
        ELSE [cls |-> "fin", v |-> <<"llr", r, s2, n>>]

\* Lines 162-168 for one symbol: its b LLRs.
LLRsOfSymbol(r, s2, cs, bitMap) ==
    LET prob == Strict([j \in 1..Len(cs) |-> ProbCls(r, cs[j], s2)])
    IN  Strict([n \in 1..Log2Int(Len(cs)) |-> LLRof(r, s2, prob, bitMap, n - 1)])

\* calcLLR(rxSymb, s2, constSymb, bitMap): LLRs[i*b + n] for every symbol i
\* and bit n.
calcLLR(rxs, s2, cs, bitMap) ==
    LET b == Log2Int(Len(cs))
        per == Strict([s \in 1..Len(rxs) |-> LLRsOfSymbol(rxs[s], s2, cs, bitMap)])
    IN  Strict([p \in 1..(Len(rxs) * b) |->
                   per[((p - 1) \div b) + 1][((p - 1) % b) + 1]])

\* Lines 240-241: LLRs[LLRs == inf] = 500; LLRs[LLRs == -inf] = -500.
ClipLLR(L) ==
    [p \in 1..Len(L) |->
        IF L[p].cls = "pinf" THEN [cls |-> "fin", v |-> <<"const", LLRClip>>]
        ELSE IF L[p].cls = "ninf" THEN [cls |-> "fin", v |-> <<"const", -LLRClip>>]
        ELSE L[p]]

\* Lines 249-251: 1 - mean(log2(1 + exp((2*btx[n::b] - 1) * LLRs[n::b]))),
\* nan as soon as one LLR is, else the expression over its (bit, LLR) pairs.
MIbit(btx, L, n, b) ==
    LET N == Len(L) \div b
    IN  IF \E s \in 0..(N - 1) : L[s * b + n + 1].cls = "nan"
        THEN [cls |-> "nan", t |-> <<>>]
        ELSE [cls |-> "num",
              t |-> [s \in 1..N |-> <<btx[(s - 1) * b + n + 1], L[(s - 1) * b + n + 1]>>]]

\* Mutant of SumMI: only the first bit position is counted.
SumMIFirst(mi) ==
    IF mi[1].cls = "nan" THEN [cls |-> "nan", t |-> <<>>]
    ELSE [cls |-> "num", t |-> <<mi[1]>>]

\* Line 252: np.sum(MIperBitPosition).
SumMI(mi) ==
    IF \E n \in 1..Len(mi) : mi[n].cls = "nan" THEN [cls |-> "nan", t |-> <<>>]
    ELSE [cls |-> "num", t |-> mi]

\* constSymb / np.sqrt(Es)
UnitConst(cs) ==
    Strict([j \in 1..Len(cs) |-> NScaleSqrt(cs[j], RDiv(ROne, EsOf(cs)))])

\* Shapes (n, mr) and (n, mt) broadcast unless both mode counts differ and
\* neither is 1.
ModesBroadcast(rxA, txA) ==
    View(rxA).m = View(txA).m \/ View(rxA).m = 1 \/ View(txA).m = 1

\* Mutant of NoiseVar: the variance over the whole array (axis forgotten),
\* here the mean of the per-mode powers of rx - tx.
NoiseVarNoAxis(rxA, txA) ==
    LET m == IF View(rxA).m > View(txA).m THEN View(rxA).m ELSE View(txA).m
        all == SScale(SumSurd([k \in 1..m |->
                   PowerDiff(BCol(rxA, k - 1), BCol(txA, k - 1))]), Rat(1, m))
    IN  [k \in 1..m |-> all]

\* np.var(rx - tx, axis=0)
NoiseVar(rxA, txA) ==
    LET m == IF View(rxA).m > View(txA).m THEN View(rxA).m ELSE View(txA).m
    IN  Strict([k \in 1..m |-> VarDiff(BCol(rxA, k - 1), BCol(txA, k - 1))])

\* Lines 221-228: the conditioning loop from mode k on.
RECURSIVE CondLoop(_, _, _, _)
CondLoop(k, nModes, rxA, txA) ==
    IF k >= nModes THEN [err |-> "", rx |-> rxA, tx |-> txA]
    ELSE LET After(c) == IF c.err # "" THEN c ELSE CondLoop(k + 1, nModes, c.rx, c.tx)
         IN  After(Condition(rxA, txA, k))

\* Lines 229-252 for mode k: what is passed to calcLLR, the LLRs the MI
\* computation consumes, the per-bit-position MI and their sum.
GMIMode(rxA, txA, k, noiseVar, cs, bitMap) ==
    LET b == Log2Int(Len(cs))
        s2 == noiseVar[k + 1]
        Out(L, mi) ==
            [sigma2 |-> s2, LLRs |-> L, MIperBitPosition |-> mi, GMI |-> SumMI(mi)]
        Of(btx, L) == Out(L, Strict([n \in 1..b |-> MIbit(btx, L, n - 1, b)]))
    IN  Of(hardDecision(ScaledCol(txA, k, EsOf(cs)), cs, bitMap),
           Strict(ClipLLR(calcLLR(GetCol(rxA, k), s2, UnitConst(cs), bitMap))))

\* The whole call.  out.GMI has one value per mode; out.MIperBitPosition is
\* the array left by the last iteration of the loop of line 229.
monteCarloGMI(rxA, txA, m, ct) ==
    LET nModes == View(txA).m
        Modes(pre, noiseVar, cs) ==
            Strict([k \in 1..nModes |->
                       GMIMode(pre.rx, pre.tx, k - 1, noiseVar, cs,
                               demodulateGray(cs, m, ct))])
        Out(pre, modes) ==
            IF ~ModesBroadcast(rxA, txA)
            THEN [fn |-> "monteCarloGMI", err |-> "ValueError", rx |-> rxA, tx |-> txA,
                  out |-> <<>>, modes |-> <<>>]
            ELSE IF pre.err # ""
            THEN [fn |-> "monteCarloGMI", err |-> pre.err, rx |-> pre.rx, tx |-> pre.tx,
                  out |-> <<>>, modes |-> <<>>]
            ELSE [fn |-> "monteCarloGMI", err |-> "", rx |-> pre.rx, tx |-> pre.tx,
                  out |-> [GMI |-> [k \in 1..nModes |-> modes[k].GMI],
                           MIperBitPosition |-> modes[nModes].MIperBitPosition],
                  modes |-> modes]
        \* noiseVar is line 213, pre the loop of lines 221-228 that follows it.
        Of(noiseVar, pre) == Out(pre, Modes(pre, noiseVar, GrayMapping(m, ct)))
    IN  Of(NoiseVar(rxA, txA), CondLoop(0, nModes, rxA, txA))

-----------------------------------------------------------------------------
(* monteCarloMI, called without px: the uniform p.m.f. *)

\* Lines 300-303: the normalisation loop from mode k on.  rx[:, k] is
\* written before tx[:, k] is read; nModes is taken from rx.
RECURSIVE MILoop1(_, _, _, _)
MILoop1(k, nModes, rxA, txA) ==
    IF k >= nModes THEN [err |-> "", rx |-> rxA, tx |-> txA]
    ELSE LET After(rx1) ==
                 IF k >= View(txA).m
                 THEN [err |-> "IndexError", rx |-> rx1, tx |-> txA]
                 ELSE MILoop1(k + 1, nModes, rx1, SetCol(txA, k, pnorm(GetCol(txA, k))))
         IN  After(SetCol(rxA, k, pnorm(GetCol(rxA, k))))

\* calcMI(rx, tx, s2, constSymb, px): 1 / s2 is a scalar division, an error
\* at s2 = 0; the value is nan when an argument is, and else the expression.
calcMI(rxc, txc, s2) ==
    IF ~s2.nan /\ SSign(s2) = 0 THEN [cls |-> "ZeroDivisionError", t |-> <<>>]
    ELSE IF s2.nan \/ (\E s \in 1..Len(rxc) : rxc[s].nan \/ txc[s].nan)
         THEN [cls |-> "nan", t |-> <<>>]
    ELSE [cls |-> "num", t |-> <<rxc, txc, s2>>]

monteCarloMI(rxA, txA, m, ct) ==
    LET nModes == View(rxA).m
        PerMode(pre, noiseVar) ==
            Strict([k \in 1..nModes |->
                       calcMI(GetCol(pre.rx, k - 1), GetCol(pre.tx, k - 1), noiseVar[k])])
        Out(pre, MI) ==
            IF pre.err # ""
            THEN [fn |-> "monteCarloMI", err |-> pre.err, rx |-> pre.rx, tx |-> pre.tx,
                  out |-> <<>>]
            ELSE IF ~ModesBroadcast(pre.rx, pre.tx)
            THEN [fn |-> "monteCarloMI", err |-> "ValueError", rx |-> pre.rx,
                  tx |-> pre.tx, out |-> <<>>]
            ELSE IF \E k \in 1..nModes : MI[k].cls = "ZeroDivisionError"
            THEN [fn |-> "monteCarloMI", err |-> "ZeroDivisionError", rx |-> pre.rx,
                  tx |-> pre.tx, out |-> <<>>]
            ELSE [fn |-> "monteCarloMI", err |-> "", rx |-> pre.rx, tx |-> pre.tx,
                  out |-> MI]
        After(pre) == Out(pre, PerMode(pre, NoiseVar(pre.rx, pre.tx)))
    IN  After(MILoop1(0, nModes, rxA, txA))

-----------------------------------------------------------------------------
(* The hardDecision machine: one action per step of the function. *)

HDCoords == (-HDMaxCoord)..HDMaxCoord
HDVals == {MkNum(a, b, 1, r, 1) :
              a \in HDCoords, b \in HDCoords, r \in 1..HDMaxRho}

\* The inputs: the sequences of up to HDMaxLen symbols cycling through two
\* symbols (every sequence of at most two symbols is one), and the
\* constellation itself.
HDInputs(m, ct) ==
    {Column(n, pat) : n \in 0..HDMaxLen, pat \in HDVals \X HDVals}
        \cup {GrayMapping(m, ct)}

NoArray == [ndim |-> 1, d |-> <<>>]

InitHD ==
    /\ \E c \in Configs : M = c[1] /\ constType = c[2]
    /\ rxSymb \in HDInputs(M, constType)
    /\ decBits = <<>>
    /\ i = 0
    /\ pc = "idle"
    /\ rx = NoArray /\ tx = NoArray /\ rx0 = NoArray /\ tx0 = NoArray
    /\ calls = <<>>

\* lines 48-51: entry, allocation of the output.
HDCall ==
    /\ pc = "idle"
    /\ decBits' = HDZeros(rxSymb, GrayMapping(M, constType))
    /\ i' = 0
    /\ pc' = "loop"
    /\ UNCHANGED <<M, constType, rx, tx, rx0, tx0, calls, rxSymb>>

\* lines 53-55: one iteration.
HDLoop ==
    /\ pc = "loop"
    /\ i < Len(rxSymb)
    /\ decBits' = HDBody(decBits, i, rxSymb, GrayMapping(M, constType),
                         demodulateGray(GrayMapping(M, constType), M, constType))
    /\ i' = i + 1
    /\ UNCHANGED <<M, constType, rx, tx, rx0, tx0, calls, rxSymb, pc>>

\* line 56: return decBits.
HDReturn ==
    /\ pc = "loop"
    /\ i >= Len(rxSymb)
    /\ pc' = "done"
    /\ UNCHANGED <<M, constType, rx, tx, rx0, tx0, calls, rxSymb, decBits, i>>

NextHD == HDCall \/ HDLoop \/ HDReturn

SpecHD == InitHD /\ [][NextHD]_vars

-----------------------------------------------------------------------------
(* The estimator machine: a caller holds the arrays rx and tx and calls the
   estimators on them, one action per call. *)

\* The symbol values the caller's arrays are filled with.
Vals == {GInt(0, 0), GInt(1, 0), GInt(-1, 1)}

\* Patterns of small symbols (multiples of 1/128): as the noise variance is
\* taken from the arrays as given, it is small against the distances in the
\* unit-power constellation.
FinePatterns ==
    {<<Norm(5, 0, 128, 1), Norm(5, 0, 128, 1)>>, <<Norm(1, 0, 128, 1), Norm(7, 0, 128, 1)>>}

\* A column cycles through a pattern of two symbols.  An array pair of one
\* mode each draws its patterns from Patterns; in a pair in which an array
\* has several modes, the modes of an array take the patterns of
\* ModePatterns in turn, from any of them on.
Patterns == (Vals \X Vals) \cup FinePatterns
ModePatterns ==
    <<<<GInt(1, 0), GInt(-1, 1)>>, <<GInt(-1, 1), GInt(1, 0)>>, <<GInt(0, 0), GInt(1, 0)>>>>

\* The patterns of the m modes of an array of a pair.
ModeChoices(m, single) ==
    IF single THEN {<<p>> : p \in Patterns}
    ELSE {[k \in 1..m |-> ModePatterns[((o + k - 1) % Len(ModePatterns)) + 1]] :
              o \in 1..Len(ModePatterns)}

\* The array object holding n samples of m modes, mode k filled from
\* pats[k], in the given layout: "1d" (n,), "2d" (n, m), "2dT" (m, n).
MkArray(layout, n, m, pats) ==
    IF layout = "1d" THEN [ndim |-> 1, d |-> [s \in 1..n |-> <<Column(n, pats[1])[s]>>]]
    ELSE IF layout = "2d"
         THEN [ndim |-> 2, d |-> [s \in 1..n |-> [k \in 1..m |-> Column(n, pats[k])[s]]]]
    ELSE [ndim |-> 2, d |-> [k \in 1..m |-> Column(n, pats[k])]]

\* The layouts in which a caller can hand over n samples of m modes so that
\* the estimators' view has n samples and m modes.
Layouts(n, m) ==
    (IF m = 1 THEN {"1d"} ELSE {})
      \cup (IF m <= n THEN {"2d"} ELSE {})
      \cup (IF m < n THEN {"2dT"} ELSE {})

\* What a call leaves in the history.
CallRec(r) ==
    [fn |-> r.fn, err |-> r.err, out |-> r.out,
     modes |-> IF r.fn = "monteCarloGMI" THEN r.modes ELSE <<>>]

Init ==
    /\ \E c \in Configs : M = c[1] /\ constType = c[2]
    /\ \E n \in 1..MaxLen : \E mr, mt \in 1..MaxModes :
       \E l \in Layouts(n, mr) \cap Layouts(n, mt) :
          \E pr \in ModeChoices(mr, mr = 1 /\ mt = 1) :
          \E pt \in ModeChoices(mt, mr = 1 /\ mt = 1) :
             /\ rx = MkArray(l, n, mr, pr)
             /\ tx = MkArray(l, n, mt, pt)
    /\ rx0 = rx
    /\ tx0 = tx
    /\ calls = <<>>
    /\ rxSymb = <<>> /\ decBits = <<>> /\ i = 0 /\ pc = "idle"

\* The effect of a call whose result is r: the caller's arrays are left as
\* the call wrote them.
Return(r) ==
    /\ rx' = r.rx
    /\ tx' = r.tx
    /\ calls' = Append(calls, CallRec(r))
    /\ UNCHANGED <<M, constType, rx0, tx0, rxSymb, decBits, i, pc>>

\* The caller repeats the estimator it called first.
MayCall(fn) == Len(calls) < MaxCalls /\ (calls # <<>> => calls[1].fn = fn)

CallFastBERcalc ==
    /\ MayCall("fastBERcalc")
    /\ \E r \in {fastBERcalc(rx, tx, M, constType)} : Return(r)

CallMonteCarloGMI ==
    /\ MayCall("monteCarloGMI")
    /\ \E r \in {monteCarloGMI(rx, tx, M, constType)} : Return(r)

CallMonteCarloMI ==
    /\ MayCall("monteCarloMI")
    /\ \E r \in {monteCarloMI(rx, tx, M, constType)} : Return(r)

Next == CallFastBERcalc \/ CallMonteCarloGMI \/ CallMonteCarloMI

Spec == Init /\ [][Next]_vars

-----------------------------------------------------------------------------
(* Claims about hardDecision. *)

\* The constellation index the contract asks for: the lowest index at
\* minimum Euclidean distance from r.
NearestLowest(r, constSymb) ==
    CHOOSE j \in 0..(Len(constSymb) - 1) :
        /\ \A k \in 0..(Len(constSymb) - 1) :
               ~SLess(AbsDiff2(r, constSymb[k + 1]), AbsDiff2(r, constSymb[j + 1]))
        /\ \A k \in 0..(j - 1) :
               SLess(AbsDiff2(r, constSymb[j + 1]), AbsDiff2(r, constSymb[k + 1]))

\* C2: when hardDecision returns, its output has exactly N*b bits and the
\* bits at positions [s*b, s*b+b) are the bit-map row of the lowest
\* constellation index at minimum distance from symbol s.
C2_HardDecisionNearest ==
    pc = "done" =>
        LET cs == GrayMapping(M, constType)
            bm == demodulateGray(cs, M, constType)
            b == Log2Int(M)
        IN  /\ Len(decBits) = Len(rxSymb) * b
            /\ \A s \in 0..(Len(rxSymb) - 1) : \A p \in 1..b :
                   decBits[s * b + p] = bm[NearestLowest(rxSymb[s + 1], cs) + 1][p]

\* C2 witness: a returned call on two symbols of which one is equidistant
\* from several constellation points, decided for a point other than 0.
C2_Witness ==
    /\ pc = "done"
    /\ Len(rxSymb) = 2
    /\ \E s \in 1..2 : \E j, k \in 1..M :
          /\ j < k
          /\ NearestLowest(rxSymb[s], GrayMapping(M, constType)) = j - 1
          /\ j > 1
          /\ AbsDiff2(rxSymb[s], GrayMapping(M, constType)[j])
               = AbsDiff2(rxSymb[s], GrayMapping(M, constType)[k])

\* C3: hardDecision applied to the constellation points in order returns the
\* bit-map rows 0..M-1 concatenated.
C3_RoundTrip ==
    (pc = "done" /\ rxSymb = GrayMapping(M, constType)) =>
        LET b == Log2Int(M)
            bm == demodulateGray(GrayMapping(M, constType), M, constType)
        IN  decBits = [p \in 1..(M * b) |-> bm[((p - 1) \div b) + 1][((p - 1) % b) + 1]]

\* C3 witness: the call on the four points of a 4-ary constellation returned.
C3_Witness ==
    pc = "done" /\ M = 4 /\ rxSymb = GrayMapping(M, constType) /\ Len(decBits) = 8

-----------------------------------------------------------------------------
(* Claims about the estimators.  calls[1] is the call made on the arrays
   rx0, tx0; a second call is made on the arrays as the first left them. *)

\* The 1-D array holding a copy of column k of the view of A.
ColArray(A, k) == [ndim |-> 1, d |-> [s \in 1..View(A).n |-> <<GetCol(A, k)[s]>>]]

\* No element of A is zero.
NoZeroSample(A) ==
    \A r \in 1..Len(A.d) : \A c \in 1..Len(A.d[r]) : ~IsZero(A.d[r][c])

\* The history holds a call of fn that returned (raised nothing).
Returned(c, fn) == c <= Len(calls) /\ calls[c].fn = fn /\ calls[c].err = ""

\* BER and SER of every mode of a fastBERcalc result are 0.
NoErrors(out, nModes) ==
    /\ Len(out) = nModes
    /\ \A k \in 1..nModes : out[k].BER = RZero /\ out[k].SER = RZero

SingleMode(fn, rxA, txA, k, m, ct) ==
    IF fn = "fastBERcalc" THEN fastBERcalc(ColArray(rxA, k), ColArray(txA, k), m, ct)
    ELSE IF fn = "monteCarloGMI"
         THEN monteCarloGMI(ColArray(rxA, k), ColArray(txA, k), m, ct)
    ELSE monteCarloMI(ColArray(rxA, k), ColArray(txA, k), m, ct)

\* The number of modes a returned call reports on.
NModesOut(c) == IF c.fn = "monteCarloGMI" THEN Len(c.out.GMI) ELSE Len(c.out)

C5_ConsumedLLRsFinite ==
    \A c \in 1..Len(calls) :
        Returned(c, "monteCarloGMI") =>
            \A k \in 1..Len(calls[c].modes) :
                \A p \in 1..Len(calls[c].modes[k].LLRs) :
                    calls[c].modes[k].LLRs[p].cls = "fin"

C7_ShapeMismatchIsError ==
    (View(rx0).m # View(tx0).m) =>
        \A c \in 1..Len(calls) : calls[c].err \in {"IndexError", "ValueError"}

\* C8: the noise variance monteCarloGMI passes to calcLLR for mode k is the
\* sample variance of rx - tx of the mode as conditioning left them.
C8_NoiseVarAfterConditioning ==
    (Len(calls) = 1 /\ Returned(1, "monteCarloGMI")) =>
        \A k \in 1..Len(calls[1].modes) :
            calls[1].modes[k].sigma2 = VarDiff(GetCol(rx, k - 1), GetCol(tx, k - 1))

\* C9: monteCarloGMI returns the per-bit-position MI array of the last mode,
\* and GMI[k] is the sum of the b per-bit-position values of mode k (nan when
\* one of them is).
C9_LastModeArrayAndSums ==
    \A c \in 1..Len(calls) :
        Returned(c, "monteCarloGMI") =>
            LET r == calls[c]
                n == Len(r.modes)
                b == Log2Int(M)
            IN  /\ Len(r.out.GMI) = n
                /\ r.out.MIperBitPosition = r.modes[n].MIperBitPosition
                /\ Len(r.out.MIperBitPosition) = b
                /\ \A k \in 1..n :
                      LET mi == r.modes[k].MIperBitPosition
                      IN  IF \E q \in 1..b : mi[q].cls = "nan"
                          THEN r.out.GMI[k].cls = "nan"
                          ELSE /\ r.out.GMI[k].cls = "num"
                               /\ Len(r.out.GMI[k].t) = b
                               /\ \A q \in 1..b : r.out.GMI[k].t[q] = mi[q]

\* C9 witness: monteCarloGMI returned for two modes and two bit positions,
\* the per-bit-position arrays of the modes being numeric and different.
C9_Witness ==
    /\ Returned(1, "monteCarloGMI")
    /\ M = 4
    /\ Len(calls[1].modes) = 2
    /\ calls[1].modes[1].MIperBitPosition # calls[1].modes[2].MIperBitPosition
    /\ \A k \in 1..2 : \A q \in 1..2 :
          calls[1].modes[k].MIperBitPosition[q].cls = "num"
    /\ calls[1].out.MIperBitPosition = calls[1].modes[2].MIperBitPosition

\* C10: for every mode, BER <= SER <= min(1, b * BER), and SER = 0 exactly
\* when BER = 0.
C10_BerSerBounds ==
    \A c \in 1..Len(calls) :
        Returned(c, "fastBERcalc") =>
            \A k \in 1..Len(calls[c].out) :
                LET BER == calls[c].out[k].BER
                    SER == calls[c].out[k].SER
                    bBER == RMul(RInt(Log2Int(M)), BER)
                IN  /\ ~RLess(SER, BER)
                    /\ ~RLess(ROne, SER)
                    /\ ~RLess(bBER, SER)
                    /\ (SER = RZero) <=> (BER = RZero)

\* C10 witness: fastBERcalc returned a mode with 0 < BER < SER < 1 (a symbol
\* with some but not all of its bits wrong).
C10_Witness ==
    /\ Returned(1, "fastBERcalc")
    /\ \E k \in 1..Len(calls[1].out) :
          /\ RLess(RZero, calls[1].out[k].BER)
          /\ RLess(calls[1].out[k].BER, calls[1].out[k].SER)
          /\ RLess(calls[1].out[k].SER, ROne)

====
